---- MODULE Spec2Model ----
(***************************************************************************)
(* Model of mlp/penalties.py: the three parameter penalties L1Penalty,     *)
(* L2Penalty and L1L2MixPenalty, each with a constructor, a value          *)
(* (__call__), a gradient (grad) and a description (__repr__).             *)
(*                                                                         *)
(* Numbers are exact rationals <<n, d>> in lowest terms with d > 0, so     *)
(* the arithmetic of the penalties is computed, not assumed.  An array is  *)
(* a record of its shape and its elements in row-major order, as numpy     *)
(* stores it.  A method is modelled by its effect: the value returned      *)
(* together with the object and the argument array as the call leaves      *)
(* them, since both are passed by reference.                               *)
(*                                                                         *)
(* Spec     : one caller constructs a penalty and calls it repeatedly.     *)
(* SpecConc : several callers share one constructed penalty and run its    *)
(*            methods line by line, interleaved.                           *)
(***************************************************************************)
EXTENDS Integers, Sequences, FiniteSets

VARIABLES obj, raised, ctor, parameter, arg0, ret, op, frames, heap, results

vars == <<obj, raised, ctor, parameter, arg0, ret, op, frames, heap, results>>

seqVars == <<raised, parameter, arg0, ret, op>>
concVars == <<frames, heap, results>>

(* ------------------------------ bounds --------------------------------- *)

\* Largest number of elements of a parameter array.
MaxSize == 3

\* Number of callers sharing the penalty object in SpecConc.
NumCallers == 2

(* ---------------------------- rationals -------------------------------- *)

Abs(n) == IF n < 0 THEN -n ELSE n

RECURSIVE GCD(_, _)
GCD(a, b) == IF b = 0 THEN a ELSE GCD(b, a % b)

\* n/d in lowest terms, d > 0.
Rat(n, d) ==
    LET g == GCD(Abs(n), d) IN <<n \div g, d \div g>>

Zero == Rat(0, 1)
One == Rat(1, 1)
\* The literal 0.5 of the L2 formulas.
Half == Rat(1, 2)

RAdd(a, b) == Rat(a[1] * b[2] + b[1] * a[2], a[2] * b[2])
RMul(a, b) == Rat(a[1] * b[1], a[2] * b[2])
RGt(a, b) == a[1] * b[2] > b[1] * a[2]
RGe(a, b) == a[1] * b[2] >= b[1] * a[2]

(* ------------------------------ numpy ---------------------------------- *)

RECURSIVE Product(_)
Product(s) == IF s = <<>> THEN 1 ELSE Head(s) * Product(Tail(s))

\* An ndarray of the given shape over the given elements.
NdArray(shape, data) == [type |-> "ndarray", shape |-> shape, data |-> data]

Float(r) == [type |-> "float", value |-> r]

Str(tokens) == [type |-> "str", text |-> tokens]

None == [type |-> "None"]

abs(r) == Rat(Abs(r[1]), r[2])
sign(r) == IF r[1] > 0 THEN One ELSE IF r[1] < 0 THEN Rat(-1, 1) ELSE Zero
square(r) == RMul(r, r)

\* The functions applied element by element keep the shape.
np_abs(a) == NdArray(a.shape, [i \in DOMAIN a.data |-> abs(a.data[i])])
np_sign(a) == NdArray(a.shape, [i \in DOMAIN a.data |-> sign(a.data[i])])
np_square(a) == NdArray(a.shape, [i \in DOMAIN a.data |-> square(a.data[i])])

RECURSIVE SumSeq(_)
SumSeq(s) == IF s = <<>> THEN Zero ELSE RAdd(Head(s), SumSeq(Tail(s)))

\* np.sum over all the elements; the sum of no elements is 0.
np_sum(a) == SumSeq(a.data)

\* scalar * array (broadcast).
np_scale(c, a) == NdArray(a.shape, [i \in DOMAIN a.data |-> RMul(c, a.data[i])])

\* array + array of one shape.
np_add(a, b) ==
    NdArray(a.shape, [i \in DOMAIN a.data |-> RAdd(a.data[i], b.data[i])])

(* ------------------------------ inputs --------------------------------- *)

\* Coefficients offered to the constructors: negative, zero, positive.
Coeffs == {Rat(-1, 1), Zero, Half, One}

\* Elements of the parameter arrays.
Elems == {Rat(-2, 1), Zero, Half, Rat(3, 1)}

Shapes ==
    {<<>>} \cup {<<n>> : n \in 0..MaxSize}
           \cup {<<r, c>> : r \in 1..MaxSize, c \in 1..MaxSize}

Arrays ==
    UNION {{NdArray(s, d) : d \in [1..Product(s) -> Elems]} :
              s \in {x \in Shapes : Product(x) <= MaxSize}}

(* ----------------------------- L1Penalty -------------------------------- *)

\* The outcome of a constructor: the exception raised, if any, and the object.
Constructed(self) == [raised |-> "none", self |-> self]
Failed(exc) == [raised |-> exc, self |-> None]

\* The effect of a method call: the value returned, and the object and the
\* argument array as the call leaves them.
Effect(r, self, p) == [ret |-> r, self |-> self, parameter |-> p]

\* Variant: the check admits a zero coefficient (>= for >).
L1Penalty_init_ge(coefficient) ==
    IF RGe(coefficient, Zero)
    THEN Constructed([type |-> "L1Penalty", coefficient |-> coefficient])
    ELSE Failed("AssertionError")

L1Penalty_init(coefficient) ==
    IF RGt(coefficient, Zero)
    THEN Constructed([type |-> "L1Penalty", coefficient |-> coefficient])
    ELSE Failed("AssertionError")

\* Variant: the absolute value is left out of the sum.
L1Penalty_call_noabs(self, p) ==
    LET penalty == RMul(self.coefficient, np_sum(p))
    IN Effect(Float(penalty), self, p)

L1Penalty_call(self, p) ==
    LET penalty == RMul(self.coefficient, np_sum(np_abs(p)))
    IN Effect(Float(penalty), self, p)

\* Variant: a sign that is +1 at zero (x >= 0 ? 1 : -1).
L1Penalty_grad_pos0(self, p) ==
    LET sgn == NdArray(p.shape,
                       [i \in DOMAIN p.data |->
                           IF p.data[i][1] >= 0 THEN One ELSE Rat(-1, 1)])
        grad == np_scale(self.coefficient, sgn)
    IN Effect(grad, self, p)

L1Penalty_grad(self, p) ==
    LET grad == np_scale(self.coefficient, np_sign(p))
    IN Effect(grad, self, p)

L1Penalty_repr(self) ==
    Str(<<"L1Penalty(", self.coefficient, ")">>)

(* ----------------------------- L2Penalty -------------------------------- *)

L2Penalty_init(coefficient) ==
    IF RGt(coefficient, Zero)
    THEN Constructed([type |-> "L2Penalty", coefficient |-> coefficient])
    ELSE Failed("AssertionError")

\* Variant: the factor 0.5 is left out.
L2Penalty_call_nohalf(self, p) ==
    LET penalty == RMul(self.coefficient, np_sum(np_square(p)))
    IN Effect(Float(penalty), self, p)

L2Penalty_call(self, p) ==
    LET penalty == RMul(RMul(Half, self.coefficient), np_sum(np_square(p)))
    IN Effect(Float(penalty), self, p)

\* Variant: the derivative's factor 2 is kept.
L2Penalty_grad_twice(self, p) ==
    LET grad == np_scale(RMul(Rat(2, 1), self.coefficient), p)
    IN Effect(grad, self, p)

L2Penalty_grad(self, p) ==
    LET grad == np_scale(self.coefficient, p)
    IN Effect(grad, self, p)

L2Penalty_repr(self) ==
    Str(<<"L2Penalty(", self.coefficient, ")">>)

(* --------------------------- L1L2MixPenalty ----------------------------- *)

\* Variant: the mix validates its coefficients as the other two classes do.
L1L2MixPenalty_init_checked(l1_coefficient, l2_coefficient) ==
    IF RGt(l1_coefficient, Zero) /\ RGt(l2_coefficient, Zero)
    THEN Constructed([type |-> "L1L2MixPenalty",
                      l1_coefficient |-> l1_coefficient,
                      l2_coefficient |-> l2_coefficient])
    ELSE Failed("AssertionError")

L1L2MixPenalty_init(l1_coefficient, l2_coefficient) ==
    Constructed([type |-> "L1L2MixPenalty",
                 l1_coefficient |-> l1_coefficient,
                 l2_coefficient |-> l2_coefficient])

\* Variant: the L2 term is scaled by the L1 weight.
L1L2MixPenalty_call_l1twice(self, p) ==
    LET l1_penalty == RMul(self.l1_coefficient, np_sum(np_abs(p)))
        l2_penalty == RMul(RMul(Half, self.l1_coefficient), np_sum(np_square(p)))
        penalty == RAdd(l1_penalty, l2_penalty)
    IN Effect(Float(penalty), self, p)

L1L2MixPenalty_call(self, p) ==
    LET l1_penalty == RMul(self.l1_coefficient, np_sum(np_abs(p)))
        l2_penalty == RMul(RMul(Half, self.l2_coefficient), np_sum(np_square(p)))
        penalty == RAdd(l1_penalty, l2_penalty)
    IN Effect(Float(penalty), self, p)

\* Variant: the L2 term is left out of the gradient.
L1L2MixPenalty_grad_nol2(self, p) ==
    LET l1_grad == np_scale(self.l1_coefficient, np_sign(p))
        grad == l1_grad
    IN Effect(grad, self, p)

\* Variant: the gradient is accumulated into the argument array in place.
L1L2MixPenalty_grad_inplace(self, p) ==
    LET l1_grad == np_scale(self.l1_coefficient, np_sign(p))
        l2_grad == np_scale(self.l2_coefficient, p)
        grad == np_add(l1_grad, l2_grad)
    IN Effect(grad, self, grad)

L1L2MixPenalty_grad(self, p) ==
    LET l1_grad == np_scale(self.l1_coefficient, np_sign(p))
        l2_grad == np_scale(self.l2_coefficient, p)
        grad == np_add(l1_grad, l2_grad)
    IN Effect(grad, self, p)

L1L2MixPenalty_repr(self) ==
    Str(<<"L1L2MixPenalty(l1_coefficient=", self.l1_coefficient,
          ", l2_coefficient=", self.l2_coefficient, ")">>)

(* ------------------------ dispatch on the class ------------------------- *)

\* cls(*args)
New(cls, args) ==
    CASE cls = "L1Penalty" -> L1Penalty_init(args[1])
      [] cls = "L2Penalty" -> L2Penalty_init(args[1])
      [] cls = "L1L2MixPenalty" -> L1L2MixPenalty_init(args[1], args[2])

\* self(p)
Call(self, p) ==
    CASE self.type = "L1Penalty" -> L1Penalty_call(self, p)
      [] self.type = "L2Penalty" -> L2Penalty_call(self, p)
      [] self.type = "L1L2MixPenalty" -> L1L2MixPenalty_call(self, p)

\* self.grad(p)
Grad(self, p) ==
    CASE self.type = "L1Penalty" -> L1Penalty_grad(self, p)
      [] self.type = "L2Penalty" -> L2Penalty_grad(self, p)
      [] self.type = "L1L2MixPenalty" -> L1L2MixPenalty_grad(self, p)

\* repr(self)
Repr(self) ==
    CASE self.type = "L1Penalty" -> L1Penalty_repr(self)
      [] self.type = "L2Penalty" -> L2Penalty_repr(self)
      [] self.type = "L1L2MixPenalty" -> L1L2MixPenalty_repr(self)

(* --------------------------- one caller (Spec) -------------------------- *)

Callers == 1..NumCallers

\* No object yet; the caller holds some parameter array.
Init ==
    /\ obj = None
    /\ raised = "none"
    /\ ctor = [cls |-> "none", args |-> <<>>]
    /\ parameter \in Arrays
    /\ arg0 = parameter
    /\ ret = None
    /\ op = "none"
    /\ frames = [t \in Callers |-> None]
    /\ heap = [t \in Callers |-> None]
    /\ results = [t \in Callers |-> None]

\* obj = cls(*args); a failed construction leaves no object.
Construct(cls, args) ==
    /\ obj = None
    /\ LET made == New(cls, args) IN
         /\ obj' = made.self
         /\ raised' = made.raised
    /\ ctor' = [cls |-> cls, args |-> args]
    /\ op' = "init"
    /\ UNCHANGED <<parameter, arg0, ret, frames, heap, results>>

ConstructL1 == \E c \in Coeffs : Construct("L1Penalty", <<c>>)
ConstructL2 == \E c \in Coeffs : Construct("L2Penalty", <<c>>)
ConstructMix == \E c1, c2 \in Coeffs : Construct("L1L2MixPenalty", <<c1, c2>>)

\* ret = obj(parameter)
Value ==
    /\ obj # None
    /\ LET eff == Call(obj, parameter) IN
         /\ ret' = eff.ret
         /\ obj' = eff.self
         /\ parameter' = eff.parameter
    /\ arg0' = parameter
    /\ op' = "call"
    /\ UNCHANGED <<raised, ctor, frames, heap, results>>

\* ret = obj.grad(parameter)
Gradient ==
    /\ obj # None
    /\ LET eff == Grad(obj, parameter) IN
         /\ ret' = eff.ret
         /\ obj' = eff.self
         /\ parameter' = eff.parameter
    /\ arg0' = parameter
    /\ op' = "grad"
    /\ UNCHANGED <<raised, ctor, frames, heap, results>>

\* ret = repr(obj)
Describe ==
    /\ obj # None
    /\ ret' = Repr(obj)
    /\ op' = "repr"
    /\ UNCHANGED <<obj, raised, ctor, parameter, arg0, frames, heap, results>>

Next ==
    \/ ConstructL1
    \/ ConstructL2
    \/ ConstructMix
    \/ Value
    \/ Gradient
    \/ Describe

Spec == Init /\ [][Next]_vars

(* ----------------------- shared object (SpecConc) ----------------------- *)

\* The frame of one call in progress: the method, the line about to run, the
\* array as it was passed, and the method's local variables.
Frame(method, line, arg) ==
    [type |-> "frame", method |-> method, line |-> line, arg |-> arg,
     l1 |-> None, l2 |-> None, out |-> None]

\* What one line does: the object, the frame and the argument array after it.
Stepped(self, f, p) == [self |-> self, frame |-> f, parameter |-> p]

\* L1Penalty.__call__ and L1Penalty.grad, one line at a time.
L1Penalty_step(self, f, p) ==
    CASE f.line = 32 ->
           Stepped(self,
                   [f EXCEPT !.line = 33,
                             !.out = Float(RMul(self.coefficient,
                                                np_sum(np_abs(p))))], p)
      [] f.line = 45 ->
           Stepped(self,
                   [f EXCEPT !.line = 46,
                             !.out = np_scale(self.coefficient, np_sign(p))], p)

\* L2Penalty.__call__ and L2Penalty.grad, one line at a time.
L2Penalty_step(self, f, p) ==
    CASE f.line = 77 ->
           Stepped(self,
                   [f EXCEPT !.line = 78,
                             !.out = Float(RMul(RMul(Half, self.coefficient),
                                                np_sum(np_square(p))))], p)
      [] f.line = 90 ->
           Stepped(self,
                   [f EXCEPT !.line = 91,
                             !.out = np_scale(self.coefficient, p)], p)

\* Variant: the L1 term is kept on the object, not in a local variable.
L1L2MixPenalty_step_onself(self, f, p) ==
    CASE f.line = 118 ->
           Stepped([type |-> self.type,
                    l1_coefficient |-> self.l1_coefficient,
                    l2_coefficient |-> self.l2_coefficient,
                    l1_penalty |-> Float(RMul(self.l1_coefficient,
                                              np_sum(np_abs(p))))],
                   [f EXCEPT !.line = 119], p)
      [] f.line = 119 ->
           Stepped(self,
                   [f EXCEPT !.line = 120,
                             !.l2 = Float(RMul(RMul(Half, self.l2_coefficient),
                                               np_sum(np_square(p))))], p)
      [] f.line = 120 ->
           Stepped(self,
                   [f EXCEPT !.line = 121,
                             !.out = Float(RAdd(self.l1_penalty.value,
                                                f.l2.value))], p)
      [] f.line = 133 ->
           Stepped(self,
                   [f EXCEPT !.line = 134,
                             !.l1 = np_scale(self.l1_coefficient, np_sign(p))], p)
      [] f.line = 134 ->
           Stepped(self,
                   [f EXCEPT !.line = 135,
                             !.l2 = np_scale(self.l2_coefficient, p)], p)
      [] f.line = 135 ->
           Stepped(self,
                   [f EXCEPT !.line = 136, !.out = np_add(f.l1, f.l2)], p)

\* L1L2MixPenalty.__call__ and L1L2MixPenalty.grad, one line at a time.
L1L2MixPenalty_step(self, f, p) ==
    CASE f.line = 118 ->
           Stepped(self,
                   [f EXCEPT !.line = 119,
                             !.l1 = Float(RMul(self.l1_coefficient,
                                               np_sum(np_abs(p))))], p)
      [] f.line = 119 ->
           Stepped(self,
                   [f EXCEPT !.line = 120,
                             !.l2 = Float(RMul(RMul(Half, self.l2_coefficient),
                                               np_sum(np_square(p))))], p)
      [] f.line = 120 ->
           Stepped(self,
                   [f EXCEPT !.line = 121,
                             !.out = Float(RAdd(f.l1.value, f.l2.value))], p)
      [] f.line = 133 ->
           Stepped(self,
                   [f EXCEPT !.line = 134,
                             !.l1 = np_scale(self.l1_coefficient, np_sign(p))], p)
      [] f.line = 134 ->
           Stepped(self,
                   [f EXCEPT !.line = 135,
                             !.l2 = np_scale(self.l2_coefficient, p)], p)
      [] f.line = 135 ->
           Stepped(self,
                   [f EXCEPT !.line = 136, !.out = np_add(f.l1, f.l2)], p)

\* The first line of a method's body.
FirstLine(cls, method) ==
    CASE cls = "L1Penalty" /\ method = "call" -> 32
      [] cls = "L1Penalty" /\ method = "grad" -> 45
      [] cls = "L2Penalty" /\ method = "call" -> 77
      [] cls = "L2Penalty" /\ method = "grad" -> 90
      [] cls = "L1L2MixPenalty" /\ method = "call" -> 118
      [] cls = "L1L2MixPenalty" /\ method = "grad" -> 133

\* The lines that return.
ReturnLines == {33, 46, 78, 91, 121, 136}

StepLine(self, f, p) ==
    CASE self.type = "L1Penalty" -> L1Penalty_step(self, f, p)
      [] self.type = "L2Penalty" -> L2Penalty_step(self, f, p)
      [] self.type = "L1L2MixPenalty" -> L1L2MixPenalty_step(self, f, p)

\* The arrays the callers pass.
ConcInputs ==
    {NdArray(<<3>>, <<Rat(-2, 1), Zero, Rat(3, 1)>>),
     NdArray(<<2, 1>>, <<Half, Rat(-2, 1)>>)}

\* Some penalty has been constructed; no caller has called it yet.
InitConc ==
    /\ \E cls \in {"L1Penalty", "L2Penalty", "L1L2MixPenalty"} :
         \E c1, c2 \in Coeffs :
            LET args == IF cls = "L1L2MixPenalty" THEN <<c1, c2>> ELSE <<c1>>
                made == New(cls, args)
            IN /\ cls # "L1L2MixPenalty" => c2 = c1
               /\ made.raised = "none"
               /\ obj = made.self
               /\ ctor = [cls |-> cls, args |-> args]
    /\ raised = "none"
    /\ parameter = NdArray(<<0>>, <<>>)
    /\ arg0 = parameter
    /\ ret = None
    /\ op = "init"
    /\ frames = [t \in Callers |-> None]
    /\ heap = [t \in Callers |-> None]
    /\ results = [t \in Callers |-> None]

\* Caller t enters obj(a) or obj.grad(a).
Invoke(t) ==
    /\ frames[t] = None
    /\ \E method \in {"call", "grad"}, a \in ConcInputs :
         /\ frames' = [frames EXCEPT
                          ![t] = Frame(method, FirstLine(obj.type, method), a)]
         /\ heap' = [heap EXCEPT ![t] = a]
    /\ results' = [results EXCEPT ![t] = None]
    /\ UNCHANGED <<obj, ctor, seqVars>>

\* Caller t runs the next line of its call.
Step(t) ==
    /\ frames[t] # None
    /\ frames[t].line \notin ReturnLines
    /\ LET e == StepLine(obj, frames[t], heap[t]) IN
         /\ obj' = e.self
         /\ frames' = [frames EXCEPT ![t] = e.frame]
         /\ heap' = [heap EXCEPT ![t] = e.parameter]
    /\ UNCHANGED <<results, ctor, seqVars>>

\* Caller t runs the return line: the frame is gone, the caller has the value.
\* concurrent records that another caller was in the middle of a call then.
Return(t) ==
    /\ frames[t] # None
    /\ frames[t].line \in ReturnLines
    /\ results' = [results EXCEPT
                      ![t] = [type |-> "result",
                              method |-> frames[t].method,
                              arg |-> frames[t].arg,
                              ret |-> frames[t].out,
                              concurrent |->
                                 \E u \in Callers \ {t} :
                                    /\ frames[u] # None
                                    /\ frames[u].line #
                                          FirstLine(obj.type, frames[u].method)]]
    /\ frames' = [frames EXCEPT ![t] = None]
    /\ UNCHANGED <<obj, heap, ctor, seqVars>>

NextConc ==
    \E t \in Callers :
       \/ Invoke(t)
       \/ Step(t)
       \/ Return(t)

SpecConc == InitConc /\ [][NextConc]_vars

(* ------------------------------ properties ------------------------------ *)

\* The worked example of the documentation: A = [-2, 0, 3].
ExampleA == NdArray(<<3>>, <<Rat(-2, 1), Zero, Rat(3, 1)>>)

RNeg(r) == Rat(-r[1], r[2])

\* Sum of the absolute values of the first n elements.
RECURSIVE SumAbsTo(_, _)
SumAbsTo(data, n) ==
    IF n = 0 THEN Zero
    ELSE RAdd(SumAbsTo(data, n - 1),
              IF RGe(data[n], Zero) THEN data[n] ELSE RNeg(data[n]))

\* Sum of the squares of the first n elements.
RECURSIVE SumSqTo(_, _)
SumSqTo(data, n) ==
    IF n = 0 THEN Zero ELSE RAdd(SumSqTo(data, n - 1), RMul(data[n], data[n]))

AllZero(a) == \A i \in DOMAIN a.data : a.data[i] = Zero

IsL1 == obj.type = "L1Penalty"
IsL2 == obj.type = "L2Penalty"
IsMix == obj.type = "L1L2MixPenalty"

\* C1: constructing L1Penalty or L2Penalty with c <= 0 raises and leaves no
\* object; with c > 0 it succeeds and the object holds exactly c.
C1_ConstructionValidated ==
    ctor.cls \in {"L1Penalty", "L2Penalty"} =>
        IF RGt(ctor.args[1], Zero)
        THEN /\ raised = "none"
             /\ obj.type = ctor.cls
             /\ obj.coefficient = ctor.args[1]
        ELSE /\ raised = "AssertionError"
             /\ obj = None

C1_Witness ==
    /\ ctor = [cls |-> "L1Penalty", args |-> <<Zero>>]
    /\ raised = "AssertionError"
    /\ obj = None

\* C2: L1Penalty(c).value(A) is c times the sum of the absolute values of
\* A's elements; it is >= 0 and is 0 exactly when every element is 0.
C2_L1Value ==
    (op = "call" /\ IsL1) =>
        /\ ret.type = "float"
        /\ ret.value = RMul(obj.coefficient,
                            SumAbsTo(arg0.data, Len(arg0.data)))
        /\ RGe(ret.value, Zero)
        /\ (ret.value = Zero <=> AllZero(arg0))
        /\ (arg0 = ExampleA /\ obj.coefficient = Half => ret.value = Rat(5, 2))

C2_Witness ==
    /\ op = "call"
    /\ IsL1
    /\ obj.coefficient = Half
    /\ arg0 = ExampleA
    /\ ret = Float(Rat(5, 2))

\* C3: L2Penalty(c).value(A) is 0.5 * c times the sum of the squares of A's
\* elements; it is >= 0 and is 0 exactly when every element is 0.
C3_L2Value ==
    (op = "call" /\ IsL2) =>
        /\ ret.type = "float"
        /\ ret.value = RMul(Rat(1, 2),
                            RMul(obj.coefficient,
                                 SumSqTo(arg0.data, Len(arg0.data))))
        /\ RGe(ret.value, Zero)
        /\ (ret.value = Zero <=> AllZero(arg0))
        /\ (arg0 = ExampleA /\ obj.coefficient = Half => ret.value = Rat(13, 4))

C3_Witness ==
    /\ op = "call"
    /\ IsL2
    /\ obj.coefficient = Half
    /\ arg0 = ExampleA
    /\ ret = Float(Rat(13, 4))

\* C4: L1Penalty(c).grad(A) has the shape of A; its element is c where A's
\* is positive, -c where it is negative and 0 where it is zero.
C4_L1Grad ==
    (op = "grad" /\ IsL1) =>
        /\ ret.type = "ndarray"
        /\ ret.shape = arg0.shape
        /\ DOMAIN ret.data = DOMAIN arg0.data
        /\ \A i \in DOMAIN arg0.data :
              /\ RGt(arg0.data[i], Zero) => ret.data[i] = obj.coefficient
              /\ RGt(Zero, arg0.data[i]) => ret.data[i] = RNeg(obj.coefficient)
              /\ arg0.data[i] = Zero => ret.data[i] = Zero

C4_Witness ==
    /\ op = "grad"
    /\ IsL1
    /\ obj.coefficient = Half
    /\ arg0 = ExampleA
    /\ ret = NdArray(<<3>>, <<Rat(-1, 2), Zero, Rat(1, 2)>>)

\* C5: L2Penalty(c).grad(A) has the shape of A and is c * A elementwise.
C5_L2Grad ==
    (op = "grad" /\ IsL2) =>
        /\ ret.type = "ndarray"
        /\ ret.shape = arg0.shape
        /\ DOMAIN ret.data = DOMAIN arg0.data
        /\ \A i \in DOMAIN arg0.data :
              ret.data[i] = RMul(obj.coefficient, arg0.data[i])

C5_Witness ==
    /\ op = "grad"
    /\ IsL2
    /\ obj.coefficient = Half
    /\ arg0 = ExampleA
    /\ ret = NdArray(<<3>>, <<Rat(-1, 1), Zero, Rat(3, 2)>>)

\* C6: for c1, c2 > 0, L1L2MixPenalty(c1, c2).value(A) is
\* L1Penalty(c1).value(A) + L2Penalty(c2).value(A).
C6_MixValueIsSum ==
    (op = "call" /\ IsMix /\ RGt(obj.l1_coefficient, Zero)
                          /\ RGt(obj.l2_coefficient, Zero)) =>
        LET l1 == L1Penalty_init(obj.l1_coefficient).self
            l2 == L2Penalty_init(obj.l2_coefficient).self
        IN ret = Float(RAdd(L1Penalty_call(l1, arg0).ret.value,
                            L2Penalty_call(l2, arg0).ret.value))

C6_Witness ==
    /\ op = "call"
    /\ IsMix
    /\ obj.l1_coefficient = Half
    /\ obj.l2_coefficient = One
    /\ arg0 = ExampleA
    /\ ret = Float(Rat(9, 1))

\* C7: L1L2MixPenalty(c1, c2).grad(A) has the shape of A and its element i
\* is c1 * sign(A[i]) + c2 * A[i] with sign(0) = 0: a zero element has
\* gradient 0, and for c1, c2 > 0 the result is the elementwise sum of
\* L1Penalty(c1).grad(A) and L2Penalty(c2).grad(A).
C7_MixGrad ==
    (op = "grad" /\ IsMix) =>
        /\ ret.type = "ndarray"
        /\ ret.shape = arg0.shape
        /\ DOMAIN ret.data = DOMAIN arg0.data
        /\ \A i \in DOMAIN arg0.data :
              LET x == arg0.data[i]
                  s == IF RGt(x, Zero) THEN obj.l1_coefficient
                       ELSE IF RGt(Zero, x) THEN RNeg(obj.l1_coefficient)
                       ELSE Zero
              IN /\ ret.data[i] = RAdd(s, RMul(obj.l2_coefficient, x))
                 /\ x = Zero => ret.data[i] = Zero
        /\ (RGt(obj.l1_coefficient, Zero) /\ RGt(obj.l2_coefficient, Zero)) =>
              LET l1 == L1Penalty_init(obj.l1_coefficient).self
                  l2 == L2Penalty_init(obj.l2_coefficient).self
                  g1 == L1Penalty_grad(l1, arg0).ret
                  g2 == L2Penalty_grad(l2, arg0).ret
              IN \A i \in DOMAIN arg0.data :
                    ret.data[i] = RAdd(g1.data[i], g2.data[i])

C7_Witness ==
    /\ op = "grad"
    /\ IsMix
    /\ obj.l1_coefficient = Half
    /\ obj.l2_coefficient = Half
    /\ arg0 = ExampleA
    /\ ret = NdArray(<<3>>, <<Rat(-3, 2), Zero, Rat(2, 1)>>)

\* C8: constructing L1L2MixPenalty(c1, c2) never fails, whatever the signs
\* of c1 and c2, and the object holds exactly c1 and c2.
C8_MixConstructionUnchecked ==
    ctor.cls = "L1L2MixPenalty" =>
        /\ raised = "none"
        /\ obj.type = "L1L2MixPenalty"
        /\ obj.l1_coefficient = ctor.args[1]
        /\ obj.l2_coefficient = ctor.args[2]

C8_Witness ==
    /\ ctor = [cls |-> "L1L2MixPenalty", args |-> <<Rat(-1, 1), Zero>>]
    /\ raised = "none"
    /\ obj.type = "L1L2MixPenalty"
    /\ obj.l1_coefficient = Rat(-1, 1)
    /\ obj.l2_coefficient = Zero

\* C9: after any calls of value, grad and describe the object is exactly
\* the object as constructed, and the array passed in is unchanged.
C9_CallsChangeNothing ==
    obj # None =>
        /\ obj = New(ctor.cls, ctor.args).self
        /\ parameter = arg0

C9_Witness ==
    /\ op = "grad"
    /\ IsMix
    /\ obj = New(ctor.cls, ctor.args).self
    /\ ret.type = "ndarray"
    /\ ret # parameter
    /\ parameter = arg0
    /\ ~AllZero(arg0)

\* The value a call returns when it runs alone, first line to last.
RECURSIVE RunAlone(_, _, _)
RunAlone(self, f, p) ==
    IF f.line \in ReturnLines
    THEN f.out
    ELSE LET e == StepLine(self, f, p)
         IN RunAlone(e.self, e.frame, e.parameter)

\* C10: whatever the interleaving of the callers' lines, a call on the
\* shared object returns what it returns when run alone on the same array.
C10_InterleavingInvisible ==
    \A t \in Callers :
       results[t] # None =>
          LET self == New(ctor.cls, ctor.args).self
              r == results[t]
          IN r.ret = RunAlone(self,
                              Frame(r.method, FirstLine(self.type, r.method),
                                    r.arg),
                              r.arg)

C10_Witness ==
    \E t \in Callers, u \in Callers :
       /\ IsMix
       /\ results[t] # None
       /\ results[t].concurrent
       /\ results[t].method = "call"
       /\ frames[u] # None
       /\ frames[u].method = "call"
       /\ frames[u].line = 120
       /\ frames[u].arg # results[t].arg

====
